---- MODULE Spec2Model ----
(***************************************************************************)
(* A model of tracecruncher/ft_utils.py: the event, kprobe, kretval_probe  *)
(* and khist wrappers and parse_record_array_field.  The native module     *)
(* ftracepy (imported as ft) is not part of ft_utils.py; what the wrappers  *)
(* need of it is modelled from the specification (the definitions whose    *)
(* comment says "native").                                                 *)
(*                                                                         *)
(* Five independent state machines share the module, one per component:    *)
(*   SpecHist    khist, create_khist, find_khist                           *)
(*   SpecProbe   kprobe.register, kretval_probe.register                   *)
(*   SpecFields  kprobe.add_array_arg, kprobe.add_string_array_arg         *)
(*   SpecParse   parse_record_array_field                                  *)
(*   SpecEvent   event.enable, event.disable                               *)
(***************************************************************************)
EXTENDS Integers, Sequences, FiniteSets, TLC

VARIABLES
    \* ---- kernel side of one histogram ("<name>_inst" and its trigger)
    instExists,     \* the tracefs instance directory exists
    trig,           \* the hist trigger: "none", "paused" or "running"
    count,          \* accumulated hit count of the histogram
    \* ---- the khist object
    obj,            \* "none", "live" (constructed), "failed" (__init__ raised)
    selfInst,       \* self.inst: "None" or "inst"
    instOwned,      \* native flag of the instance handle: destroy on release
    attached,       \* self.attached: "unset", "true" or "false"
    selfHist,       \* self.hist: "unset" or "set"
    find,           \* the constructor's find argument
    \* ---- history of the khist calls
    lastOp,         \* the last operation applied
    initFail,       \* the step at which the last __init__ raised, or "none"
    ret,            \* the value of the last data(), NoRet otherwise
    pre,            \* the state before the last clear()
    proto,          \* progress through stop, clear, start, one event, data
    started,        \* start() or resume() was called since construction
    evSeen,         \* matching events since construction (saturating)
    lastOwn,        \* last of attach()/detach() since construction
    delErr,         \* what the last teardown raised
    delCleared,     \* the last teardown cleared the histogram
    delRemoved,     \* the last teardown removed the instance
    detachedDel     \* an owned, detached object was torn down last

histVars == <<instExists, trig, count, obj, selfInst, instOwned, attached,
              selfHist, find, lastOp, initFail, ret, pre, proto, started,
              evSeen, lastOwn, delErr, delCleared, delRemoved, detachedDel>>

    \* ---- kernel side of the dynamic probes
VARIABLES
    kprobeIds,      \* registered probe events: event name -> id
    nextId,         \* the id the kernel gives the next registered event
    \* ---- the kprobe and kretval_probe objects
    alive,          \* the object exists
    selfName,       \* self.name
    selfFunc,       \* self.func
    evt_id,         \* self.evt_id
    selfKp,         \* self.kp: "None" or "kp"
    regLast         \* the last register() call: what it called and how it ended

probeVars == <<kprobeIds, nextId, alive, selfName, selfFunc, evt_id, selfKp,
               regLast>>

    \* ---- kprobe.fields
VARIABLES
    ptr_size,       \* ctypes.sizeof(ctypes.c_voidp) of the platform
    fields,         \* self.fields: field name -> probe
    fPre,           \* self.fields before the last add_*array_arg call
    fLast           \* the last add_*array_arg call and its arguments

fieldVars == <<ptr_size, fields, fPre, fLast>>

    \* ---- parse_record_array_field
VARIABLES
    record,         \* the record: field name -> decoded value
    pLast           \* the last call: its size argument and what it gave

parseVars == <<record, pLast>>

    \* ---- event.enable / event.disable
VARIABLES
    instance_list,  \* self.instance_list
    kEnabled,       \* the instances on which the kernel has the event enabled
    ePre,           \* self.instance_list before the last call
    eLast           \* the last enable()/disable() call and how it ended

eventVars == <<instance_list, kEnabled, ePre, eLast>>

vars == <<histVars, probeVars, fieldVars, parseVars, eventVars>>

\* ------------------------------------------------------------------ bounds

MaxCount == 3
MaxEvents == 2
MaxId == 3
MaxArraySize == 2
NumRecordFields == 10
MaxParseSize == 11
MaxInstances == 2

NoRet == <<>>

NoPre == [trig |-> "-", attached |-> "-", selfInst |-> "-",
          instExists |-> FALSE, instOwned |-> FALSE, count |-> 0]

\* =================================================================== khist

\* native: hist.stop(inst) writes the trigger with the pause command; a
\* trigger that does not exist yet is created paused.
HistStop(t) == "paused"

\* native: hist.resume(inst) writes the resume command.
HistResume(t) == "running"

\* native: hist.clear(inst) resets the counts and leaves the run state.
HistClear(c) == 0

\* native: hist.read(inst) returns the accumulated data.
HistRead(t, c) == IF t = "none" THEN 0 ELSE c

\* native: ft.find_instance(name) fails with NotFound unless it exists.
FindInstanceOk == instExists

\* native: ft.create_instance(name) makes a new instance; fails if present.
CreateInstanceOk == ~instExists

\* The steps of khist.__init__ that call the native module, in order.
InitSteps(fnd, hasWeights, hasSortDir) ==
    <<"instance", "hist">>
    \o (IF hasWeights THEN <<"add_value">> ELSE <<>>)
    \o <<"sort_keys">>
    \o (IF hasSortDir THEN <<"sort_key_direction">> ELSE <<>>)
    \o (IF fnd THEN <<>> ELSE <<"stop">>)

\* Whether step s is reached and completed when __init__ raises at failAt.
RECURSIVE IndexOf(_, _, _)
IndexOf(seq, s, i) ==
    IF i > Len(seq) THEN 0
    ELSE IF seq[i] = s THEN i ELSE IndexOf(seq, s, i + 1)

StepDone(steps, s, failAt) ==
    /\ IndexOf(steps, s, 1) > 0
    /\ \/ failAt = "none"
       \/ IndexOf(steps, s, 1) < IndexOf(steps, failAt, 1)

\* self.attached as khist.__init__ sets it.
InitAttachedAlways(fnd) == "true"
InitAttached(fnd) == IF fnd THEN "false" ELSE "true"

\* The trigger after "put the kernel histogram on standby".
InitStandbyResumes(fnd, t) == IF fnd THEN t ELSE HistResume(t)
InitStandby(fnd, t) == IF fnd THEN t ELSE HistStop(t)

\* khist.__init__, up to its return or to the native call that raises.
\* ft.hist and the calls on it build the descriptor of the histogram; the
\* trigger is first written by the standby stop.
khist_init(fnd) ==
    /\ obj = "none"
    /\ \E hasWeights \in BOOLEAN, hasSortDir \in BOOLEAN :
       LET steps == InitSteps(fnd, hasWeights, hasSortDir) IN
       \E failAt \in {"none"} \cup {steps[i] : i \in 1..Len(steps)} :
          /\ (failAt = "instance") =
                 ~(IF fnd THEN FindInstanceOk ELSE CreateInstanceOk)
          /\ LET gotInst == StepDone(steps, "instance", failAt)
                 gotHist == StepDone(steps, "hist", failAt)
                 standby == StepDone(steps, "stop", failAt)
             IN  /\ selfInst' = IF gotInst THEN "inst" ELSE "None"
                 /\ attached' = IF gotInst THEN InitAttached(fnd) ELSE "unset"
                 /\ instOwned' = (gotInst /\ ~fnd)
                 /\ instExists' = (instExists \/ (gotInst /\ ~fnd))
                 /\ selfHist' = IF gotHist THEN "set" ELSE "unset"
                 /\ trig' = IF fnd \/ standby
                            THEN InitStandby(fnd, trig) ELSE trig
                 /\ obj' = IF failAt = "none" THEN "live" ELSE "failed"
                 /\ initFail' = failAt
    /\ find' = fnd
    /\ lastOp' = "init"
    /\ started' = FALSE
    /\ evSeen' = 0
    /\ lastOwn' = "none"
    /\ ret' = NoRet /\ pre' = NoPre /\ proto' = 0
    /\ delErr' = "none" /\ delCleared' = FALSE /\ delRemoved' = FALSE
    /\ UNCHANGED <<count, detachedDel>>
    /\ UNCHANGED <<probeVars, fieldVars, parseVars, eventVars>>

create_khist == khist_init(FALSE)

find_khist == khist_init(TRUE)

\* What a method call leaves alone in the history.
OpFrame == UNCHANGED <<obj, find, initFail, evSeen, delErr, delCleared,
                       delRemoved, detachedDel, instExists,
                       probeVars, fieldVars, parseVars, eventVars>>

khist_start ==
    /\ obj = "live"
    /\ trig' = HistResume(trig)
    /\ started' = TRUE
    /\ proto' = IF proto = 2 THEN 3 ELSE 0
    /\ lastOp' = "start" /\ ret' = NoRet /\ pre' = NoPre
    /\ OpFrame
    /\ UNCHANGED <<count, selfInst, instOwned, attached, selfHist, lastOwn>>

khist_stop ==
    /\ obj = "live"
    /\ trig' = HistStop(trig)
    /\ proto' = 1
    /\ lastOp' = "stop" /\ ret' = NoRet /\ pre' = NoPre
    /\ OpFrame
    /\ UNCHANGED <<count, selfInst, instOwned, attached, selfHist, lastOwn,
                   started>>

khist_resume ==
    /\ obj = "live"
    /\ trig' = HistResume(trig)
    /\ started' = TRUE
    /\ proto' = 0
    /\ lastOp' = "resume" /\ ret' = NoRet /\ pre' = NoPre
    /\ OpFrame
    /\ UNCHANGED <<count, selfInst, instOwned, attached, selfHist, lastOwn>>

khist_data ==
    /\ obj = "live"
    /\ ret' = <<HistRead(trig, count)>>
    /\ proto' = IF proto = 4 THEN 5 ELSE 0
    /\ lastOp' = "data" /\ pre' = NoPre
    /\ OpFrame
    /\ UNCHANGED <<trig, count, selfInst, instOwned, attached, selfHist,
                   lastOwn, started>>

\* The state khist.clear must leave alone.
Snapshot == [trig |-> trig, attached |-> attached, selfInst |-> selfInst,
             instExists |-> instExists, instOwned |-> instOwned,
             count |-> count]

khist_clear_stops ==
    /\ obj = "live"
    /\ count' = HistClear(count)
    /\ trig' = HistStop(trig)
    /\ pre' = Snapshot
    /\ proto' = IF proto = 1 THEN 2 ELSE 0
    /\ lastOp' = "clear" /\ ret' = NoRet
    /\ OpFrame
    /\ UNCHANGED <<selfInst, instOwned, attached, selfHist, lastOwn, started>>

khist_clear_forgets ==
    /\ obj = "live"
    /\ pre' = Snapshot
    /\ proto' = IF proto = 1 THEN 2 ELSE 0
    /\ lastOp' = "clear" /\ ret' = NoRet
    /\ OpFrame
    /\ UNCHANGED <<trig, count, selfInst, instOwned, attached, selfHist,
                   lastOwn, started>>

khist_clear ==
    /\ obj = "live"
    /\ count' = HistClear(count)
    /\ pre' = Snapshot
    /\ proto' = IF proto = 1 THEN 2 ELSE 0
    /\ lastOp' = "clear" /\ ret' = NoRet
    /\ OpFrame
    /\ UNCHANGED <<trig, selfInst, instOwned, attached, selfHist, lastOwn,
                   started>>

khist_detach_keeps_flag ==
    /\ obj = "live"
    /\ instOwned' = FALSE
    /\ lastOwn' = "detach"
    /\ proto' = 0
    /\ lastOp' = "detach" /\ ret' = NoRet /\ pre' = NoPre
    /\ OpFrame
    /\ UNCHANGED <<trig, count, selfInst, selfHist, started, attached>>

khist_detach ==
    /\ obj = "live"
    /\ instOwned' = FALSE           \* native: ft.detach(inst)
    /\ attached' = "false"
    /\ lastOwn' = "detach"
    /\ proto' = 0
    /\ lastOp' = "detach" /\ ret' = NoRet /\ pre' = NoPre
    /\ OpFrame
    /\ UNCHANGED <<trig, count, selfInst, selfHist, started>>

khist_attach ==
    /\ obj = "live"
    /\ instOwned' = TRUE            \* native: ft.attach(inst)
    /\ attached' = "true"
    /\ lastOwn' = "attach"
    /\ proto' = 0
    /\ lastOp' = "attach" /\ ret' = NoRet /\ pre' = NoPre
    /\ OpFrame
    /\ UNCHANGED <<trig, count, selfInst, selfHist, started>>

\* khist.__del__, then the release of the object's members: the instance
\* handle removes the instance when the native module owns it.
khist_del ==
    /\ obj \in {"live", "failed"}
    /\ LET doClear == selfInst # "None" /\ attached = "true"
           noHandle == doClear /\ selfHist = "unset"
           cleared == doClear /\ selfHist = "set"
           removed == selfInst # "None" /\ instOwned
       IN  /\ delErr' = IF noHandle THEN "AttributeError" ELSE "none"
           /\ delCleared' = cleared
           /\ delRemoved' = removed
           /\ instExists' = (instExists /\ ~removed)
           /\ trig' = IF removed THEN "none" ELSE trig
           /\ count' = IF removed \/ cleared THEN HistClear(count) ELSE count
           /\ detachedDel' = (obj = "live" /\ ~find /\ lastOwn = "detach")
    /\ lastOp' = IF obj = "live" THEN "del" ELSE "del_failed"
    /\ obj' = "none"
    /\ selfInst' = "None" /\ attached' = "unset" /\ selfHist' = "unset"
    /\ instOwned' = FALSE
    /\ ret' = NoRet /\ pre' = NoPre /\ proto' = 0
    /\ UNCHANGED <<find, initFail, started, evSeen, lastOwn>>
    /\ UNCHANGED <<probeVars, fieldVars, parseVars, eventVars>>

\* One occurrence of the event the histogram is attached to.
MatchingEvent ==
    /\ trig = "running" => count < MaxCount
    /\ count' = IF instExists /\ trig = "running" THEN count + 1 ELSE count
    /\ evSeen' = IF evSeen < MaxEvents THEN evSeen + 1 ELSE evSeen
    /\ proto' = CASE proto = 3 -> 4
                  [] proto \in {4, 5} -> 0
                  [] OTHER -> proto
    /\ lastOp' = "event" /\ ret' = NoRet /\ pre' = NoPre
    /\ UNCHANGED <<instExists, trig, obj, selfInst, instOwned, attached,
                   selfHist, find, initFail, started, lastOwn, delErr,
                   delCleared, delRemoved, detachedDel>>
    /\ UNCHANGED <<probeVars, fieldVars, parseVars, eventVars>>

HistInit ==
    /\ instExists = FALSE /\ trig = "none" /\ count = 0
    /\ obj = "none" /\ selfInst = "None" /\ instOwned = FALSE
    /\ attached = "unset" /\ selfHist = "unset" /\ find = FALSE
    /\ lastOp = "none" /\ initFail = "none" /\ ret = NoRet /\ pre = NoPre
    /\ proto = 0 /\ started = FALSE /\ evSeen = 0 /\ lastOwn = "none"
    /\ delErr = "none" /\ delCleared = FALSE /\ delRemoved = FALSE
    /\ detachedDel = FALSE

HistNext ==
    \/ create_khist
    \/ find_khist
    \/ khist_start
    \/ khist_stop
    \/ khist_resume
    \/ khist_data
    \/ khist_clear
    \/ khist_detach
    \/ khist_attach
    \/ khist_del
    \/ MatchingEvent

\* ========================================== kprobe and kretval_probe

Probes == {"kprobe", "kretval_probe"}
ProbeNames == {"open", "close"}
Funcs == {"", "do_sys_open", "no_such_function"}

\* native: the functions the kernel can probe.
KernelFuncs == {"do_sys_open"}

\* self.evt_id as event.__init__ sets it for a dynamic event.
UnsetId == -1

NoReg == [op |-> "none", obj |-> "kprobe", calls |-> <<>>,
          outcome |-> "none", preId |-> UnsetId]

\* kprobe_base.__init__ through kprobe.__init__ / kretval_probe.__init__.
kprobe_base_init(o, name, func) ==
    /\ ~alive[o]
    /\ alive' = [alive EXCEPT ![o] = TRUE]
    /\ selfName' = [selfName EXCEPT ![o] = name]
    /\ selfFunc' = [selfFunc EXCEPT ![o] = func]
    /\ evt_id' = [evt_id EXCEPT ![o] = UnsetId]
    /\ selfKp' = [selfKp EXCEPT ![o] = "None"]
    /\ regLast' = NoReg
    /\ UNCHANGED <<kprobeIds, nextId>>
    /\ UNCHANGED <<histVars, fieldVars, parseVars, eventVars>>

set_function(o, name) ==
    /\ alive[o]
    /\ selfFunc' = [selfFunc EXCEPT ![o] = name]
    /\ regLast' = NoReg
    /\ UNCHANGED <<kprobeIds, nextId, alive, selfName, evt_id, selfKp>>
    /\ UNCHANGED <<histVars, fieldVars, parseVars, eventVars>>

\* native: ft.kprobe(event, function, probe) writes the probe definition;
\* the kernel rejects an unknown function and a name that is still live.
KprobeWriteOk(name, func) ==
    func \in KernelFuncs /\ name \notin DOMAIN kprobeIds

\* native: the probe table after a successful write.
KprobeWritten(ids, name) ==
    [n \in DOMAIN ids \cup {name} |-> IF n = name THEN nextId ELSE ids[n]]

\* find_event_id: the registry's id of the event; raises if it has none.
find_event_id_ok(ids, name) == name \in DOMAIN ids

find_event_id(ids, name) == ids[name]

\* register() with the two calls in the other order.
register_lookup_first(o) ==
    /\ alive[o]
    /\ \E tepOk \in BOOLEAN :
       LET name == selfName[o]
           found == tepOk /\ find_event_id_ok(kprobeIds, name)
           wrote == found /\ KprobeWriteOk(name, selfFunc[o])
       IN  /\ wrote => nextId < MaxId
           /\ kprobeIds' = IF wrote THEN KprobeWritten(kprobeIds, name)
                           ELSE kprobeIds
           /\ nextId' = IF wrote THEN nextId + 1 ELSE nextId
           /\ selfKp' = IF wrote THEN [selfKp EXCEPT ![o] = "kp"] ELSE selfKp
           /\ evt_id' = IF found
                        THEN [evt_id EXCEPT ![o] = find_event_id(kprobeIds, name)]
                        ELSE evt_id
           /\ regLast' = [op |-> "register", obj |-> o,
                          calls |-> IF found THEN <<"find_event_id", "kprobe">>
                                    ELSE <<"find_event_id">>,
                          outcome |-> IF wrote THEN "returned"
                                      ELSE IF found THEN "write_failed"
                                      ELSE "lookup_failed",
                          preId |-> evt_id[o]]
    /\ UNCHANGED <<alive, selfName, selfFunc>>
    /\ UNCHANGED <<histVars, fieldVars, parseVars, eventVars>>

\* kprobe.register and kretval_probe.register: write the probe, then look
\* up the id of the new event.
register(o) ==
    /\ alive[o]
    /\ \E tepOk \in BOOLEAN :
       LET name == selfName[o]
           wrote == KprobeWriteOk(name, selfFunc[o])
           ids1 == IF wrote THEN KprobeWritten(kprobeIds, name) ELSE kprobeIds
           found == wrote /\ tepOk /\ find_event_id_ok(ids1, name)
       IN  /\ wrote => nextId < MaxId
           /\ kprobeIds' = ids1
           /\ nextId' = IF wrote THEN nextId + 1 ELSE nextId
           /\ selfKp' = IF wrote THEN [selfKp EXCEPT ![o] = "kp"] ELSE selfKp
           /\ evt_id' = IF found
                        THEN [evt_id EXCEPT ![o] = find_event_id(ids1, name)]
                        ELSE evt_id
           /\ regLast' = [op |-> "register", obj |-> o,
                          calls |-> IF wrote THEN <<"kprobe", "find_event_id">>
                                    ELSE <<"kprobe">>,
                          outcome |-> IF found THEN "returned"
                                      ELSE IF wrote THEN "lookup_failed"
                                      ELSE "write_failed",
                          preId |-> evt_id[o]]
    /\ UNCHANGED <<alive, selfName, selfFunc>>
    /\ UNCHANGED <<histVars, fieldVars, parseVars, eventVars>>

kprobe_register == register("kprobe")

kretval_probe_register == register("kretval_probe")

\* native: the object is released; the probe handle it holds unregisters
\* the probe from the kernel.
probe_release(o) ==
    /\ alive[o]
    /\ alive' = [alive EXCEPT ![o] = FALSE]
    /\ kprobeIds' = IF selfKp[o] = "kp"
                    THEN [n \in DOMAIN kprobeIds \ {selfName[o]} |-> kprobeIds[n]]
                    ELSE kprobeIds
    /\ selfKp' = [selfKp EXCEPT ![o] = "None"]
    /\ evt_id' = [evt_id EXCEPT ![o] = UnsetId]
    /\ regLast' = NoReg
    /\ UNCHANGED <<nextId, selfName, selfFunc>>
    /\ UNCHANGED <<histVars, fieldVars, parseVars, eventVars>>

ProbeInit ==
    /\ kprobeIds = <<>>
    /\ nextId = 0
    /\ alive = [o \in Probes |-> FALSE]
    /\ selfName = [o \in Probes |-> "open"]
    /\ selfFunc = [o \in Probes |-> ""]
    /\ evt_id = [o \in Probes |-> UnsetId]
    /\ selfKp = [o \in Probes |-> "None"]
    /\ regLast = NoReg

ProbeNext ==
    \/ \E o \in Probes, name \in ProbeNames, func \in Funcs :
           kprobe_base_init(o, name, func)
    \/ \E o \in Probes, func \in Funcs : set_function(o, func)
    \/ kprobe_register
    \/ kretval_probe_register
    \/ \E o \in Probes : probe_release(o)

\* ============================================================ kprobe.fields

FieldNames == {"argv", "envp"}
ParamIds == {1, 2}
ParamTypes == {"u64"}
Offsets == {0, 8}
PtrSizes == {4, 8}
ArraySizes == {-1} \cup (0..MaxArraySize)

\* The size add_array_arg uses when none is given.
ArrayDefaultSize == 10

\* The probe '+{off}({e})' reads memory at the value of e plus off;
\* '$arg{n}' is the n-th argument of the traced function.
Arg(n) == [op |-> "arg", n |-> n]
Deref(off, e) == [op |-> "deref", off |-> off, of |-> e]

\* field_name = name + str(i)
FieldName(name, i) == name \o ToString(i)

\* kprobe.add_raw_field: self.fields[str(name)] = str(probe)
add_raw_field(flds, name, probe) ==
    [n \in DOMAIN flds \cup {name} |-> IF n = name THEN probe ELSE flds[n]]

\* The probe of element i: '+{offset}(+{i * ptr_size}($arg{param_id})):{type}'
ArrayElementProbeNoPtrSize(ptr, param_id, param_type, offset, i) ==
    [fetch |-> Deref(offset, Deref(i, Arg(param_id))), type |-> param_type]

ArrayElementProbe(ptr, param_id, param_type, offset, i) ==
    [fetch |-> Deref(offset, Deref(i * ptr, Arg(param_id))),
     type |-> param_type]

\* for i in range(size), from i on
RECURSIVE ArrayLoop(_, _, _, _, _, _, _, _)
ArrayLoop(flds, ptr, name, param_id, param_type, offset, size, i) ==
    IF i >= size THEN flds
    ELSE ArrayLoop(add_raw_field(flds, FieldName(name, i),
                       ArrayElementProbe(ptr, param_id, param_type, offset, i)),
                   ptr, name, param_id, param_type, offset, size, i + 1)

AddArrayArg(flds, ptr, name, param_id, param_type, offset, size) ==
    ArrayLoop(flds, ptr, name, param_id, param_type, offset,
              IF size < 0 THEN ArrayDefaultSize ELSE size, 0)

AddStringArrayArg(flds, ptr, name, param_id, offset, usr_space, size) ==
    AddArrayArg(flds, ptr, name, param_id,
                IF usr_space THEN "ustring" ELSE "string", offset, size)

NoCall == [op |-> "none", name |-> "", param_id |-> 0, type |-> "",
           offset |-> 0, size |-> 0]

add_array_arg(name, param_id, param_type, offset, size) ==
    /\ fLast.op = "none"
    /\ fields' = AddArrayArg(fields, ptr_size, name, param_id, param_type,
                             offset, size)
    /\ fPre' = fields
    /\ fLast' = [op |-> "add_array_arg", name |-> name, param_id |-> param_id,
                 type |-> param_type, offset |-> offset, size |-> size]
    /\ UNCHANGED ptr_size
    /\ UNCHANGED <<histVars, probeVars, parseVars, eventVars>>

add_string_array_arg(name, param_id, offset, usr_space, size) ==
    /\ fLast.op = "none"
    /\ fields' = AddStringArrayArg(fields, ptr_size, name, param_id, offset,
                                   usr_space, size)
    /\ fPre' = fields
    /\ fLast' = [op |-> "add_string_array_arg", name |-> name,
                 param_id |-> param_id,
                 type |-> IF usr_space THEN "ustring" ELSE "string",
                 offset |-> offset, size |-> size]
    /\ UNCHANGED ptr_size
    /\ UNCHANGED <<histVars, probeVars, parseVars, eventVars>>

\* A kprobe as constructed (no fields), or after one earlier call.
FieldsInit ==
    /\ ptr_size \in PtrSizes
    /\ \/ fields = <<>>
       \/ \E name \in FieldNames, offset \in Offsets, size \in ArraySizes :
             fields = AddArrayArg(<<>>, ptr_size, name, 1, "u64", offset, size)
    /\ fPre = <<>>
    /\ fLast = NoCall

FieldsIdle ==
    /\ ptr_size = 8 /\ fields = <<>> /\ fPre = <<>> /\ fLast = NoCall

FieldsNext ==
    \/ \E name \in FieldNames, param_id \in ParamIds, t \in ParamTypes,
          offset \in Offsets, size \in ArraySizes :
           add_array_arg(name, param_id, t, offset, size)
    \/ \E name \in FieldNames, param_id \in ParamIds, offset \in Offsets,
          usr_space \in BOOLEAN, size \in ArraySizes :
           add_string_array_arg(name, param_id, offset, usr_space, size)

\* ================================================ parse_record_array_field

\* The value that ends an array.
NullSentinel == "(nil)"

\* The size parse_record_array_field uses when none is given.
ParseDefaultSize == 10

ArrayField == "argv"

RecordFieldNames == {FieldName(ArrayField, i) : i \in 0..(NumRecordFields - 1)}

\* The records: each field holds the sentinel or a string of its own.
Records ==
    {[f \in RecordFieldNames |-> IF f \in nil THEN NullSentinel ELSE "str_" \o f]
        : nil \in SUBSET RecordFieldNames}

ParseSizes == {-2, -1} \cup (0..MaxParseSize)

\* for i in range(size), from i on; calls lists the fields handed to
\* event.parse_record_field, which raises for a field the event lacks.
RECURSIVE ParseLoopNoBreak(_, _, _, _, _, _)
ParseLoopNoBreak(rec, field, size, i, arr, calls) ==
    IF i >= size
    THEN [arr |-> arr, calls |-> calls, outcome |-> "returned"]
    ELSE LET field_name == FieldName(field, i)
             calls1 == Append(calls, field_name)
         IN  IF field_name \notin DOMAIN rec
             THEN [arr |-> arr, calls |-> calls1, outcome |-> "raised"]
             ELSE IF rec[field_name] = NullSentinel
             THEN ParseLoopNoBreak(rec, field, size, i + 1, arr, calls1)
             ELSE ParseLoopNoBreak(rec, field, size, i + 1,
                                   Append(arr, rec[field_name]), calls1)

RECURSIVE ParseLoop(_, _, _, _, _, _)
ParseLoop(rec, field, size, i, arr, calls) ==
    IF i >= size
    THEN [arr |-> arr, calls |-> calls, outcome |-> "returned"]
    ELSE LET field_name == FieldName(field, i)
             calls1 == Append(calls, field_name)
         IN  IF field_name \notin DOMAIN rec
             THEN [arr |-> arr, calls |-> calls1, outcome |-> "raised"]
             ELSE IF rec[field_name] = NullSentinel
             THEN [arr |-> arr, calls |-> calls1, outcome |-> "returned"]
             ELSE ParseLoop(rec, field, size, i + 1,
                            Append(arr, rec[field_name]), calls1)

ParseRecordArrayField(rec, field, size) ==
    ParseLoop(rec, field, IF size < 0 THEN ParseDefaultSize ELSE size,
              0, <<>>, <<>>)

NoParse == [op |-> "none", size |-> 0, arr |-> <<>>, calls |-> <<>>,
            outcome |-> "none"]

parse_record_array_field(size) ==
    /\ LET r == ParseRecordArrayField(record, ArrayField, size)
       IN  pLast' = [op |-> "parse", size |-> size, arr |-> r.arr,
                     calls |-> r.calls, outcome |-> r.outcome]
    /\ UNCHANGED record
    /\ UNCHANGED <<histVars, probeVars, fieldVars, eventVars>>

ParseInit == record \in Records /\ pLast = NoParse

ParseIdle ==
    /\ record = [f \in RecordFieldNames |-> NullSentinel]
    /\ pLast = NoParse

ParseNext == \E size \in ParseSizes : parse_record_array_field(size)

\* ================================================================== event

Instances == {"inst" \o ToString(k) : k \in 1..MaxInstances}

\* instance=None stands for the top instance.
Target(instance) == IF instance = "None" THEN "top" ELSE instance

Range(seq) == {seq[k] : k \in 1..Len(seq)}

\* list(set(l)): the distinct elements of l, in an order of the set's own.
ListOfSet(l) ==
    {q \in [1..Cardinality(Range(l)) -> Range(l)] : Range(q) = Range(l)}

\* l.remove(x): l without the first x.
RECURSIVE Remove(_, _)
Remove(l, x) ==
    IF l = <<>> THEN <<>>
    ELSE IF Head(l) = x THEN Tail(l) ELSE <<Head(l)>> \o Remove(Tail(l), x)

\* native: ft.enable_event / ft.disable_event write the event's enable file
\* in the instance.
EnableEvent(en, t) == en \cup {t}

DisableEvent(en, t) == en \ {t}

event_enable_keeps_duplicates(instance) ==
    \E ok \in BOOLEAN :
       /\ kEnabled' = IF ok THEN EnableEvent(kEnabled, Target(instance))
                      ELSE kEnabled
       /\ instance_list' = IF ok THEN Append(instance_list, Target(instance))
                           ELSE instance_list
       /\ ePre' = instance_list
       /\ eLast' = [op |-> "enable", target |-> Target(instance),
                    outcome |-> IF ok THEN "returned" ELSE "native_error"]
       /\ UNCHANGED <<histVars, probeVars, fieldVars, parseVars>>

event_enable(instance) ==
    \E ok \in BOOLEAN :
       /\ kEnabled' = IF ok THEN EnableEvent(kEnabled, Target(instance))
                      ELSE kEnabled
       /\ IF ok
          THEN instance_list'
                   \in ListOfSet(Append(instance_list, Target(instance)))
          ELSE instance_list' = instance_list
       /\ ePre' = instance_list
       /\ eLast' = [op |-> "enable", target |-> Target(instance),
                    outcome |-> IF ok THEN "returned" ELSE "native_error"]
       /\ UNCHANGED <<histVars, probeVars, fieldVars, parseVars>>

event_disable(instance) ==
    \E ok \in BOOLEAN :
       LET t == Target(instance)
           present == t \in Range(instance_list)
       IN  /\ kEnabled' = IF ok THEN DisableEvent(kEnabled, t) ELSE kEnabled
           /\ instance_list' = IF ok /\ present THEN Remove(instance_list, t)
                               ELSE instance_list
           /\ ePre' = instance_list
           /\ eLast' = [op |-> "disable", target |-> t,
                        outcome |-> IF ~ok THEN "native_error"
                                    ELSE IF present THEN "returned"
                                    ELSE "ValueError"]
           /\ UNCHANGED <<histVars, probeVars, fieldVars, parseVars>>

EventInit ==
    /\ instance_list = <<>>
    /\ kEnabled = {}
    /\ ePre = <<>>
    /\ eLast = [op |-> "none", target |-> "top", outcome |-> "none"]

EventNext ==
    \/ \E instance \in {"None"} \cup Instances : event_enable(instance)
    \/ \E instance \in {"None"} \cup Instances : event_disable(instance)

\* ============================================================== the specs

InitHist == HistInit /\ ProbeInit /\ FieldsIdle /\ ParseIdle /\ EventInit
SpecHist == InitHist /\ [][HistNext]_vars

InitProbe == HistInit /\ ProbeInit /\ FieldsIdle /\ ParseIdle /\ EventInit
SpecProbe == InitProbe /\ [][ProbeNext]_vars

InitFields == HistInit /\ ProbeInit /\ FieldsInit /\ ParseIdle /\ EventInit
SpecFields == InitFields /\ [][FieldsNext]_vars

InitParse == HistInit /\ ProbeInit /\ FieldsIdle /\ ParseInit /\ EventInit
SpecParse == InitParse /\ [][ParseNext]_vars

InitEvent == HistInit /\ ProbeInit /\ FieldsIdle /\ ParseIdle /\ EventInit
SpecEvent == InitEvent /\ [][EventNext]_vars

\* ----------------------------------------------------------- khist claims

\* C1: an owned histogram (find=False) is on standby when the constructor
\* returns: whatever events occur, data() read before the first start() or
\* resume() shows no accumulated counts.
C1_StandbyReadsZero ==
    (lastOp = "data" /\ ~find /\ ~started) => ret = <<0>>

C1_Witness ==
    lastOp = "data" /\ ~find /\ ~started /\ evSeen = MaxEvents /\ ret = <<0>>

\* C2: for an owned histogram, detach() followed by the teardown of the
\* object performs no clear and does not remove the instance, and a later
\* find under the same name finds the instance.
C2_DetachedTeardownKeepsInstance ==
    /\ (lastOp = "del" /\ ~find /\ lastOwn = "detach")
           => (~delCleared /\ ~delRemoved /\ instExists)
    /\ (lastOp = "init" /\ find /\ detachedDel) => initFail # "instance"

C2_Witness ==
    lastOp = "init" /\ find /\ detachedDel /\ obj = "live" /\ count > 0

\* C3 as stated: the teardown of a borrowed histogram (find=True) never
\* clears the histogram and never removes the instance, whatever calls
\* preceded it (attach included).
C3_BorrowedTeardownNeverClears ==
    (lastOp \in {"del", "del_failed"} /\ find)
        => (~delCleared /\ ~delRemoved)

\* C3 amended: the teardown of a borrowed histogram clears the histogram and
\* removes the instance exactly when the last of its attach()/detach() calls
\* was attach(); without such a call it does neither.
C3_BorrowedTeardownUnlessAttached ==
    (lastOp \in {"del", "del_failed"} /\ find)
        => IF lastOwn = "attach"
           THEN delCleared /\ delRemoved /\ ~instExists
           ELSE ~delCleared /\ ~delRemoved /\ instExists = (initFail # "instance")

C3_Witness ==
    /\ lastOp = "del" /\ find /\ lastOwn = "detach"
    /\ started /\ count > 0 /\ instExists

\* C4: stop(), clear(), start(), exactly one matching event, data() yields
\* exactly one count, from any state the histogram can be in.
C4_StopClearStartOneEvent == proto = 5 => ret = <<1>>

C4_Witness == proto = 5 /\ lastOp = "data" /\ ret = <<1>>

\* C8: clear() resets the counts and leaves the run status, the attached
\* flag and the instance as they were.
C8_ClearFrame ==
    lastOp = "clear" =>
        /\ count = 0
        /\ trig = pre.trig
        /\ attached = pre.attached
        /\ selfInst = pre.selfInst
        /\ instExists = pre.instExists
        /\ instOwned = pre.instOwned

C8_Witness ==
    lastOp = "clear" /\ pre.count > 0 /\ pre.trig = "running" /\ count = 0

\* C9: the teardown of an object whose construction failed completes
\* without raising and never uses a histogram handle that was not set.
C9_FailedInitTeardownSafe == lastOp = "del_failed" => delErr = "none"

\* ----------------------------------------------------------- probe claims

\* What C5 says of every register() call but for its last clause: the probe
\* is written before the id is looked up; when register() returns, the id is
\* the kernel's non-negative id of the event; when the write fails, no
\* lookup is made.
RegisterOrderAndId ==
    LET o == regLast.obj IN
    /\ regLast.calls \in {<<"kprobe">>, <<"kprobe", "find_event_id">>}
    /\ regLast.outcome = "returned" =>
           /\ regLast.calls = <<"kprobe", "find_event_id">>
           /\ selfName[o] \in DOMAIN kprobeIds
           /\ evt_id[o] = kprobeIds[selfName[o]]
           /\ evt_id[o] >= 0
           /\ evt_id[o] # UnsetId
    /\ regLast.outcome = "write_failed" => regLast.calls = <<"kprobe">>

\* C5 as stated: ... and if the kernel write fails the id stays -1.
C5_RegisterFailedIdUnset ==
    regLast.op = "register" =>
        /\ RegisterOrderAndId
        /\ regLast.outcome = "write_failed" => evt_id[regLast.obj] = UnsetId

\* C5 amended: ... and if the kernel write fails the id keeps the value it
\* had before the call.
C5_RegisterFailedIdKept ==
    regLast.op = "register" =>
        /\ RegisterOrderAndId
        /\ regLast.outcome = "write_failed" =>
               evt_id[regLast.obj] = regLast.preId

C5_Witness ==
    /\ regLast.op = "register" /\ regLast.outcome = "write_failed"
    /\ regLast.preId >= 0
    /\ evt_id[regLast.obj] = regLast.preId

\* --------------------------------------------------- kprobe.fields claims

\* The number of elements the last call asked for.
CalledSize == IF fLast.size < 0 THEN 10 ELSE fLast.size

WrittenNames == {FieldName(fLast.name, i) : i \in 0..(CalledSize - 1)}

\* The offset a probe adds to the function argument itself.
RECURSIVE ArgOffset(_)
ArgOffset(e) ==
    IF e.op = "arg" THEN 0
    ELSE IF e.of.op = "arg" THEN e.off ELSE ArgOffset(e.of)

\* What C7 says of the fields written: 10 of them for a negative size and
\* n for size n >= 0, element i under the name {name}{i}, all others kept.
ArrayFieldsWritten ==
    /\ Cardinality(WrittenNames) = CalledSize
    /\ DOMAIN fields = DOMAIN fPre \cup WrittenNames
    /\ \A n \in DOMAIN fPre \ WrittenNames : fields[n] = fPre[n]
    /\ \A i \in 0..(CalledSize - 1) :
           fields[FieldName(fLast.name, i)].type = fLast.type

\* C7 as stated: ... and the probe of element i addresses offset
\* base + i * pointer_size, where base is the caller's offset argument.
C7_ElementAtOffsetPlusIndex ==
    fLast.op # "none" =>
        /\ ArrayFieldsWritten
        /\ \A i \in 0..(CalledSize - 1) :
               ArgOffset(fields[FieldName(fLast.name, i)].fetch)
                   = fLast.offset + i * ptr_size

\* C7 amended: ... and the probe of element i is
\* '+{offset}(+{i * pointer_size}($arg{param_id})):{type}': the element is
\* fetched at i * pointer_size from the argument, and the caller's offset is
\* applied to what the element points to.
C7_ElementAtIndexThenOffset ==
    fLast.op # "none" =>
        /\ ArrayFieldsWritten
        /\ \A i \in 0..(CalledSize - 1) :
               LET e == fields[FieldName(fLast.name, i)].fetch IN
               /\ ArgOffset(e) = i * ptr_size
               /\ e = Deref(fLast.offset, Deref(i * ptr_size, Arg(fLast.param_id)))

C7_Witness ==
    /\ fLast.op = "add_string_array_arg" /\ fLast.size < 0 /\ fLast.offset > 0
    /\ Cardinality(WrittenNames) = 10
    /\ DOMAIN fPre \ WrittenNames # {}
    /\ ArgOffset(fields[FieldName(fLast.name, 9)].fetch) = 9 * ptr_size

\* ------------------------------------------ parse_record_array_field claim

\* The size the last call asked for.
ParsedSize == IF pLast.size < 0 THEN 10 ELSE pLast.size

\* The index of the first field of the record holding the sentinel, or the
\* number of fields when none does.
FirstSentinel ==
    LET at == {i \in 0..(NumRecordFields - 1) :
                  record[FieldName(ArrayField, i)] = NullSentinel}
    IN  IF at = {} THEN NumRecordFields
        ELSE CHOOSE i \in at : \A j \in at : i <= j

Min(a, b) == IF a <= b THEN a ELSE b

\* C6: the result holds the fields {field}0, {field}1, ... in index order up
\* to the first one that holds '(nil)': its length is min(size, index of the
\* first sentinel), the sentinel is not in it and no field after the first
\* sentinel is parsed.
C6_TruncatedAtFirstSentinel ==
    (pLast.op = "parse" /\ pLast.outcome = "returned") =>
        LET n == Min(ParsedSize, FirstSentinel) IN
        /\ Len(pLast.arr) = n
        /\ \A i \in 0..(n - 1) :
               pLast.arr[i + 1] = record[FieldName(ArrayField, i)]
        /\ NullSentinel \notin Range(pLast.arr)
        /\ Len(pLast.calls) = Min(ParsedSize, FirstSentinel + 1)
        /\ \A k \in 1..Len(pLast.calls) :
               pLast.calls[k] = FieldName(ArrayField, k - 1)

C6_Witness ==
    /\ pLast.op = "parse" /\ pLast.outcome = "returned" /\ pLast.size < 0
    /\ FirstSentinel = 3 /\ Len(pLast.arr) = 3 /\ Len(pLast.calls) = 4
    /\ record[FieldName(ArrayField, 5)] # NullSentinel

\* ------------------------------------------------------------ event claim

\* C10: instance_list holds no instance twice and holds exactly the
\* instances on which the event is enabled in the kernel; disable() on an
\* instance that is not in the list raises and leaves the list as it was.
C10_InstanceListTracksKernel ==
    /\ Cardinality(Range(instance_list)) = Len(instance_list)
    /\ Range(instance_list) = kEnabled
    /\ (eLast.op = "disable" /\ eLast.target \notin Range(ePre)) =>
           (eLast.outcome # "returned" /\ instance_list = ePre)

C10_Witness ==
    /\ eLast.op = "disable" /\ eLast.outcome = "ValueError"
    /\ Len(instance_list) = 2 /\ instance_list = ePre
    /\ "top" \in kEnabled

====
